---- MODULE Spec2Model ----
(***************************************************************************)
(* System-Mcp: the JSON-RPC request dispatch core (Router.messageLoop and  *)
(* MCPHandler), the TTL cache (MemoryCache) and the tools that use it.     *)
(*                                                                         *)
(* Spec drives the router as main runs it: Start, Stop and the message     *)
(* loop over a bounded input stream.  SetupSpec adds the tools a caller    *)
(* registers before Start.  TripSpec marshals the responses and parses     *)
(* them back.  DispatchSpec calls the dispatcher request by request        *)
(* through ProcessSingleRequest.  CacheSpec drives the cache, every        *)
(* operation one step under mc.mutex: its callers, the clock, the          *)
(* deferred lazy-expiry goroutines                                         *)
(* and the background sweep; SweepFairSpec and CacheFairSpec add the       *)
(* scheduling of the sweep and of the spawned goroutines.  ToolSpec runs   *)
(* CPUTool.Execute and MemoryTool.Execute over the cache.  LockSpec splits *)
(* every cache operation at its lock, for goroutines running at once.      *)
(***************************************************************************)
EXTENDS Integers, Sequences, FiniteSets, Bags, TLC

VARIABLES
    running,    \* Router.running
    tools,      \* MCPHandler.tools: name -> registered tool
    pc,         \* position of the goroutine that calls Start
    cur,        \* the line held by the loop body (scanner.Text())
    inputs,     \* history: the id members of the lines read, in order
    output,     \* the response lines written to Router.output, in order
    lastSent,   \* history: the response written for the line in cur, in full
    lastExec,   \* history: the invocation of Execute made for the line in cur
    startRet,   \* what the last call of Start returned
    lastReg,    \* history: per name, the tool of the latest RegisterTool call
    regTwice,   \* history: names passed to RegisterTool more than once
    dispatched, \* history: HandleRequest was called for the line in cur
    readErr,    \* history: scanner.Err() was not nil when the loop ended
    readAfterStop, \* history: the line in cur was read while running was false
    rt,         \* history: the latest response marshalled and parsed back
    initSeen,   \* history: ProcessSingleRequest has handled an initialize request
    refCall,    \* history: the first call of ProcessSingleRequest, kept to compare
    lastDispatch, \* history: the latest call of ProcessSingleRequest
    items,      \* MemoryCache.items: key -> CacheItem
    now,        \* the wall clock read by time.Now()
    pending,    \* per key, the deferred-delete goroutines spawned and not yet run
                \* (MaxPending of them at most, over all keys)
    deadline,   \* history: per key, now + ttl of the latest Set (-1: never set)
    lastCall,   \* history: the latest cache operation issued by a caller
    swept,      \* history: keys the sweep removed since the caller's last operation
    spawned,    \* history: the keys whose stored entry has had a deferred
                \* delete spawned by a read
    sys,        \* the reading the operating system gives when sampled
    tpc,        \* position of the goroutine inside a tool's Execute
    tcall,      \* the arguments of the Execute call in progress or last made
    tret,       \* history: what the last Execute call returned
    computed,   \* history: per key, the reading last computed for it and when
    mutex,      \* MemoryCache.mutex: held exclusively or by a number of readers
    cs          \* per goroutine, the cache operation it is inside of

routerVars == <<running, tools, pc, cur, inputs, output, lastSent, lastExec,
                startRet, lastReg, regTwice, dispatched, readErr, readAfterStop,
                rt, initSeen, refCall, lastDispatch>>
dispatchHist == <<initSeen, refCall, lastDispatch>>
loopHist == <<dispatched, readErr, readAfterStop>>
cacheVars == <<items, now, pending, deadline, lastCall, swept, spawned>>
toolVars == <<sys, tpc, tcall, tret, computed>>
lockVars == <<mutex, cs>>
vars == <<routerVars, cacheVars, toolVars, lockVars>>

\* What the operations of the router, those of the cache taken as one step
\* each, and those of the tools leave alone.
routerFrame == <<rt, dispatchHist, cacheVars, toolVars, lockVars>>
cacheFrame == <<routerVars, toolVars, lockVars>>
toolFrame == <<routerVars, lockVars>>

-----------------------------------------------------------------------------
(* Bounds *)

MaxLines == 2
MaxTime == 2
MaxPending == 2
MaxBigOffset == 3

-----------------------------------------------------------------------------
(* JSON-RPC values *)

\* The id member of a line: absent, JSON null, a number or a string.
IdAbsent == [t |-> "absent", v |-> 0]
IdNull == [t |-> "null", v |-> 0]
IdValues == {[t |-> "num", v |-> 1], [t |-> "str", v |-> 1]}
IdFields == {IdAbsent, IdNull} \cup IdValues

\* Integer ids past the 53 bits of a float64 significand: [t |-> "bignum",
\* v |-> k] is the JSON number 2^53 + k.
BigIds == {[t |-> "bignum", v |-> k] : k \in 0..MaxBigOffset}

\* A nil interface{} (req.ID after decoding an absent or null id).
NilID == [t |-> "nil", v |-> 0]

\* The float64 nearest to 2^53 + k, as an offset from 2^53: between 2^53 and
\* 2^54 the float64 values are the even integers, and a tie goes to the one
\* whose significand is even.
NearestFloat64Offset(k) ==
    IF k % 2 = 0 THEN k
    ELSE IF (k + 1) % 4 = 0 THEN k + 1 ELSE k - 1

\* Decoding the id member into an interface{} (JSONRPCRequest.ID, or the
\* rawMessage map of the parse-error branch): null and an absent member give
\* nil, a string gives a string, a number gives the nearest float64.
DecodeID(f) ==
    IF f.t \in {"absent", "null"} THEN NilID
    ELSE IF f.t = "bignum" THEN [t |-> "bignum", v |-> NearestFloat64Offset(f.v)]
    ELSE f

\* json.Marshal of the ID member of a response: nil is written as null, a
\* string as a string, a float64 as the decimal digits of its value.
MarshalID(id) == IF id = NilID THEN IdNull ELSE id

MethodInitialize == "initialize"
MethodInitialized == "initialized"
MethodNotificationInitialized == "notifications/initialized"
MethodListTools == "tools/list"
MethodCallTool == "tools/call"
MethodListPrompts == "prompts/list"
MethodListResources == "resources/list"
MethodReadResource == "resources/read"
MethodOther == "bogus/method"

Methods == {MethodInitialize, MethodInitialized, MethodNotificationInitialized,
            MethodListTools, MethodCallTool, MethodListPrompts,
            MethodListResources, MethodReadResource, MethodOther}

BuiltinNames == {"cpu_info", "memory_info", "top_processes", "network_stats",
                 "disk_info", "system_overview"}
CustomNames == {"custom"}
UnregisteredName == "nope"

NoParams == [shape |-> "absent", name |-> ""]
BadParams == [shape |-> "bad", name |-> ""]
CallParams == {NoParams, BadParams}
                 \cup {[shape |-> "ok", name |-> n] :
                         n \in {"cpu_info", "custom", UnregisteredName}}

\* The lines the input stream can deliver.
\*   empty    : ""
\*   garbage  : not a JSON object (both Unmarshal calls fail)
\*   badshape : a JSON object with a member of the wrong type (the typed
\*              Unmarshal fails, the one into map[string]interface{} succeeds)
\*   ok       : decodes into JSONRPCRequest
EmptyLine == [kind |-> "empty", id |-> IdAbsent, method |-> "", params |-> NoParams]
GarbageLine == [kind |-> "garbage", id |-> IdAbsent, method |-> "", params |-> NoParams]
BadShapeLines == {[kind |-> "badshape", id |-> i, method |-> "", params |-> NoParams] :
                    i \in IdFields}
OkLines == {[kind |-> "ok", id |-> i, method |-> m, params |-> NoParams] :
              i \in IdFields, m \in Methods \ {MethodCallTool}}
           \cup {[kind |-> "ok", id |-> i, method |-> MethodCallTool, params |-> p] :
                   i \in IdFields, p \in CallParams}
Lines == {EmptyLine, GarbageLine} \cup BadShapeLines \cup OkLines
NoLine == [kind |-> "none", id |-> IdAbsent, method |-> "", params |-> NoParams]

\* json.Unmarshal(line, &req): the decoded request, for a line it accepts.
Request(line) == [ID |-> DecodeID(line.id), Method |-> line.method,
                  Params |-> line.params]

Nil == [kind |-> "nil"]

-----------------------------------------------------------------------------
(* MCPHandler *)

BuiltinTool(n) == [name |-> n, description |-> "builtin"]
CustomTools == {[name |-> n, description |-> d] :
                  n \in CustomNames, d \in {"d1", "d2"}}

NewMCPHandlerTools == << >>

RegisterToolKeepFirst(tls, tool) ==
    IF tool.name \in DOMAIN tls THEN tls ELSE (tool.name :> tool) @@ tls

RegisterTool(tls, tool) == (tool.name :> tool) @@ tls

RECURSIVE RegisterAll(_, _)
RegisterAll(tls, names) ==
    IF names = {} THEN tls
    ELSE LET n == CHOOSE x \in names : TRUE
         IN RegisterAll(RegisterTool(tls, BuiltinTool(n)), names \ {n})

InitializeTools(tls) == RegisterAll(tls, BuiltinNames)

errorResponseBoth(req, code, message) ==
    [ID |-> req.ID, Result |-> [kind |-> "error"],
     Error |-> [kind |-> "error", code |-> code, message |-> message]]

errorResponse(req, code, message) ==
    [ID |-> req.ID, Result |-> Nil,
     Error |-> [kind |-> "error", code |-> code, message |-> message]]

handleInitialize(req) ==
    [ID |-> req.ID, Result |-> [kind |-> "initialize"], Error |-> Nil]

handleInitializedAck(req) ==
    [ID |-> req.ID, Result |-> [kind |-> "empty"], Error |-> Nil]

handleInitialized(req) == Nil

\* One descriptor per key of the map; the order of a Go map range is
\* unspecified, so the list is kept as a bag.
RECURSIVE Descriptors(_, _)
Descriptors(tls, names) ==
    IF names = {} THEN EmptyBag
    ELSE LET n == CHOOSE x \in names : TRUE
         IN SetToBag({[name |-> tls[n].name, description |-> tls[n].description]})
              (+) Descriptors(tls, names \ {n})

handleListTools(req, tls) ==
    [ID |-> req.ID,
     Result |-> [kind |-> "tools", tools |-> Descriptors(tls, DOMAIN tls)],
     Error |-> Nil]

CallToolEarlyNotFound(req, tls) ==
    IF req.Params.shape = "bad"
    THEN errorResponse(req, -32602, "Invalid params")
    ELSE IF req.Params.name \notin DOMAIN tls
         THEN errorResponse(req, -32601, "Unknown tool")
         ELSE Nil

CallToolEarlyParseError(req, tls) ==
    IF req.Params.shape = "bad"
    THEN errorResponse(req, -32700, "Parse error")
    ELSE IF req.Params.name \notin DOMAIN tls
         THEN errorResponse(req, -32602, "Unknown tool")
         ELSE Nil

\* handleCallTool up to the call of tool.Execute: the error response it
\* returns early, or Nil when it goes on to execute the tool.
CallToolEarly(req, tls) ==
    IF req.Params.shape = "bad"
    THEN errorResponse(req, -32602, "Invalid params")
    ELSE IF req.Params.name \notin DOMAIN tls
         THEN errorResponse(req, -32602, "Unknown tool")
         ELSE Nil

CallToolResultProtocolError(req, execRet) ==
    IF execRet = "err"
    THEN errorResponse(req, -32603, "tool failed")
    ELSE [ID |-> req.ID,
          Result |-> [kind |-> "content", isError |-> FALSE], Error |-> Nil]

\* handleCallTool after tool.Execute returned execRet ("ok" or "err").
CallToolResult(req, execRet) ==
    IF execRet = "err"
    THEN [ID |-> req.ID,
          Result |-> [kind |-> "content", isError |-> TRUE], Error |-> Nil]
    ELSE [ID |-> req.ID,
          Result |-> [kind |-> "content", isError |-> FALSE], Error |-> Nil]

handleCallTool(req, tls, execRet) ==
    IF CallToolEarly(req, tls) # Nil THEN CallToolEarly(req, tls)
    ELSE CallToolResult(req, execRet)

handleListPrompts(req) ==
    [ID |-> req.ID, Result |-> [kind |-> "prompts"], Error |-> Nil]

handleListResources(req) ==
    [ID |-> req.ID, Result |-> [kind |-> "resources"], Error |-> Nil]

handleReadResourceInvalidParams(req) ==
    errorResponse(req, -32602, "Resources not supported")

handleReadResource(req) ==
    errorResponse(req, -32601, "Resource reading not implemented")

HandleRequestOnceInitialized(req, tls, execRet) ==
    CASE req.Method = MethodInitialize -> handleInitialize(req)
      [] req.Method \in {MethodInitialized, MethodNotificationInitialized} ->
            handleInitialized(req)
      [] req.Method \in {MethodListTools, MethodCallTool} /\ ~initSeen ->
            errorResponse(req, -32002, "Server not initialized")
      [] req.Method = MethodListTools -> handleListTools(req, tls)
      [] req.Method = MethodCallTool -> handleCallTool(req, tls, execRet)
      [] req.Method = MethodListPrompts -> handleListPrompts(req)
      [] req.Method = MethodListResources -> handleListResources(req)
      [] req.Method = MethodReadResource -> handleReadResource(req)
      [] OTHER -> errorResponse(req, -32601, "Method not found")

HandleRequest(req, tls, execRet) ==
    CASE req.Method = MethodInitialize -> handleInitialize(req)
      [] req.Method \in {MethodInitialized, MethodNotificationInitialized} ->
            handleInitialized(req)
      [] req.Method = MethodListTools -> handleListTools(req, tls)
      [] req.Method = MethodCallTool -> handleCallTool(req, tls, execRet)
      [] req.Method = MethodListPrompts -> handleListPrompts(req)
      [] req.Method = MethodListResources -> handleListResources(req)
      [] req.Method = MethodReadResource -> handleReadResource(req)
      [] OTHER -> errorResponse(req, -32601, "Method not found")

\* Whether HandleRequest reaches tool.Execute for this request.
CallsExecute(req, tls) ==
    req.Method = MethodCallTool /\ CallToolEarly(req, tls) = Nil

-----------------------------------------------------------------------------
(* Router *)

\* What a written line shows of its envelope: the id, which of the result
\* and error members it carries, and the error code (0 without an error).  src, the index of the input line
\* being answered, is history kept beside the line.
Written(response, src) ==
    [id |-> response.ID, hasResult |-> response.Result # Nil,
     hasError |-> response.Error # Nil,
     code |-> IF response.Error # Nil THEN response.Error.code ELSE 0,
     src |-> src]

\* Router.sendResponse: one line appended to the output stream.  The
\* responses built here always marshal, and the write to r.output is taken
\* to succeed (its error is ignored by the code).
sendResponsePrepend(out, response, src) == <<Written(response, src)>> \o out

sendResponseTwice(out, response, src) ==
    Append(Append(out, Written(response, src)), Written(response, src))

sendResponse(out, response, src) == Append(out, Written(response, src))

\* The tail of the loop body: the response is written unless it is nil or
\* the message is a notification.
Deliver(out, response, isNotification, src) ==
    IF response # Nil /\ ~isNotification
    THEN sendResponse(out, response, src)
    ELSE out

\* The parse-error branch of the loop body: rawMessage["id"] exists when the
\* line is a JSON object with an id member, null included.
ParseErrorResponseInvalidRequest(line) ==
    [ID |-> DecodeID(line.id), Result |-> Nil,
     Error |-> [kind |-> "error", code |-> -32600, message |-> "Invalid Request"]]

ParseErrorResponse(line) ==
    [ID |-> DecodeID(line.id), Result |-> Nil,
     Error |-> [kind |-> "error", code |-> -32700, message |-> "Parse error"]]

HasRawID(line) == line.kind = "badshape" /\ line.id.t # "absent"

\* The lines of the round trips: those the loop answers, over the wider ids.
TripLines == {[l EXCEPT !.id = i] : l \in BadShapeLines \cup OkLines,
                                   i \in IdFields \cup BigIds}
NoTrip == [sent |-> IdAbsent, wire |-> IdAbsent, back |-> NilID, line |-> NoLine]

NoExec == [src |-> 0, ret |-> "none"]
\* A params object that names a registered tool and has no arguments member
\* (or a null one): it decodes, with a nil mapping.
NoArgsParams == [shape |-> "noargs", name |-> "custom"]

\* The requests given to ProcessSingleRequest: every kind of line with one
\* id, and the tools/call requests whose params do not decode with every id.
DispatchLines ==
    {l \in Lines : l.id = [t |-> "num", v |-> 1]}
      \cup {GarbageLine}
      \cup {l \in OkLines : l.method = MethodCallTool /\ l.params = BadParams}
      \cup {[kind |-> "ok", id |-> [t |-> "num", v |-> 1],
             method |-> MethodCallTool, params |-> NoArgsParams]}
NoDispatch == [line |-> NoLine, tools |-> << >>, ret |-> "none", resp |-> Nil,
               initSeen |-> FALSE]
NoSent == [resp |-> Nil, src |-> 0]

RouterInit ==
    /\ running = FALSE
    /\ tools = NewMCPHandlerTools
    /\ pc = "idle"
    /\ cur = NoLine
    /\ inputs = << >>
    /\ output = << >>
    /\ lastSent = NoSent
    /\ lastExec = NoExec
    /\ startRet = "none"
    /\ lastReg = << >>
    /\ regTwice = {}
    /\ dispatched = FALSE
    /\ readErr = FALSE
    /\ readAfterStop = FALSE
    /\ rt = NoTrip
    /\ initSeen = FALSE
    /\ refCall = NoDispatch
    /\ lastDispatch = NoDispatch

\* GetHandler().RegisterTool(tool), called while the router is being set up.
RegisterToolCall(tool) ==
    /\ pc = "idle"
    /\ tools' = RegisterTool(tools, tool)
    /\ lastReg' = (tool.name :> tool) @@ lastReg
    /\ regTwice' = IF tool.name \in DOMAIN lastReg
                   THEN regTwice \cup {tool.name} ELSE regTwice
    /\ UNCHANGED <<running, pc, cur, inputs, output, lastSent, lastExec, startRet>>
    /\ UNCHANGED loopHist
    /\ UNCHANGED routerFrame

\* Router.Start on a router that is not running: sets the flag, registers
\* the six tools and enters messageLoop.
Start ==
    /\ pc \in {"idle", "done"}
    /\ ~running
    /\ running' = TRUE
    /\ tools' = InitializeTools(tools)
    /\ lastReg' = [n \in BuiltinNames |-> BuiltinTool(n)] @@ lastReg
    /\ regTwice' = regTwice \cup (BuiltinNames \cap DOMAIN lastReg)
    /\ pc' = "scan"
    /\ startRet' = "none"
    /\ readErr' = FALSE
    /\ UNCHANGED <<cur, inputs, output, lastSent, lastExec, dispatched, readAfterStop>>
    /\ UNCHANGED routerFrame

StartWhileRunningRestarts ==
    /\ running
    /\ tools' = InitializeTools(tools)
    /\ lastReg' = [n \in BuiltinNames |-> BuiltinTool(n)] @@ lastReg
    /\ regTwice' = regTwice \cup (BuiltinNames \cap DOMAIN lastReg)
    /\ startRet' = "none"
    /\ UNCHANGED <<running, pc, cur, inputs, output, lastSent, lastExec>>
    /\ UNCHANGED loopHist
    /\ UNCHANGED routerFrame

\* Router.Start on a router whose flag is set: returns the error at once.
StartWhileRunning ==
    /\ running
    /\ startRet' = "already running"
    /\ UNCHANGED <<running, tools, pc, cur, inputs, output, lastSent, lastExec,
                   lastReg, regTwice>>
    /\ UNCHANGED loopHist
    /\ UNCHANGED routerFrame

\* Router.IsRunning.
IsRunning == running

\* Router.Stop, from any goroutine.
Stop ==
    /\ running' = FALSE
    /\ UNCHANGED <<tools, pc, cur, inputs, output, lastSent, lastExec, startRet,
                   lastReg, regTwice>>
    /\ UNCHANGED loopHist
    /\ UNCHANGED routerFrame

\* What messageLoop returns once the loop has ended: the scanner's error,
\* wrapped, or nil.
LoopReturnNil(err) == "nil"

LoopReturn(err) == IF err THEN "scan error" ELSE "nil"

\* The left operand of the loop condition r.running && scanner.Scan().  The
\* flag is written by Stop without synchronisation, so after a Stop the read
\* yields either the cleared flag or the value Start stored before the loop.
\* A set flag leads into scanner.Scan(); a clear one ends the loop with
\* scanner.Err() nil.
LoopCheck ==
    /\ pc = "scan"
    /\ \E seen \in {running, TRUE} :
         IF seen
         THEN /\ pc' = "read"
              /\ UNCHANGED <<startRet, readErr>>
         ELSE /\ pc' = "done"
              /\ readErr' = FALSE
              /\ startRet' = LoopReturn(FALSE)
    /\ UNCHANGED <<running, tools, cur, inputs, output, lastSent, lastExec,
                   lastReg, regTwice, dispatched, readAfterStop>>
    /\ UNCHANGED routerFrame

\* scanner.Scan() returns true: a line is delivered to the loop body.
ScanLine(line) ==
    /\ pc = "read"
    /\ Len(inputs) < MaxLines
    /\ inputs' = Append(inputs, line.id)
    /\ cur' = line
    /\ pc' = "handle"
    /\ lastSent' = NoSent
    /\ lastExec' = NoExec
    /\ dispatched' = FALSE
    /\ readAfterStop' = ~running
    /\ UNCHANGED <<running, tools, output, startRet, lastReg, regTwice, readErr>>
    /\ UNCHANGED routerFrame

\* scanner.Scan() returns false: the stream is exhausted (scanner.Err() is
\* nil) or the read failed (scanner.Err() is not nil).
ScanEnd ==
    /\ pc = "read"
    /\ \E err \in BOOLEAN :
         /\ readErr' = err
         /\ startRet' = LoopReturn(err)
    /\ pc' = "done"
    /\ UNCHANGED <<running, tools, cur, inputs, output, lastSent, lastExec,
                   lastReg, regTwice, dispatched, readAfterStop>>
    /\ UNCHANGED routerFrame

\* The response the router builds for a line (the parse-error response of
\* the loop body, or the dispatcher's), marshalled as sendResponse and
\* ProcessSingleRequest do and parsed back.
RoundTrip(line, execRet) ==
    LET req == Request(line)
        exec == line.kind = "ok" /\ CallsExecute(req, tools)
        resp == IF line.kind = "ok"
                THEN HandleRequest(req, tools, IF exec THEN execRet ELSE "none")
                ELSE ParseErrorResponse(line)
        answered == IF line.kind = "ok"
                    THEN resp # Nil /\ req.ID # NilID
                    ELSE HasRawID(line)
    IN /\ answered
       /\ exec \/ execRet = "ok"
       /\ rt' = [sent |-> line.id, wire |-> MarshalID(resp.ID),
                 back |-> DecodeID(MarshalID(resp.ID)), line |-> line]
    /\ UNCHANGED <<running, tools, pc, cur, inputs, output, lastSent, lastExec,
                   startRet, lastReg, regTwice>>
    /\ UNCHANGED loopHist
    /\ UNCHANGED <<dispatchHist, cacheVars, toolVars, lockVars>>

\* Router.ProcessSingleRequest: the line is decoded and, when that succeeds,
\* handed to HandleRequest (with the outcome of tool.Execute when the tool is
\* called); the response is returned marshalled.  The call and what it
\* returned are kept as history, and the first call made stays in refCall.
ProcessSingleRequest(line, execRet) ==
    LET req == Request(line)
        exec == line.kind = "ok" /\ CallsExecute(req, tools)
        ret == IF exec THEN execRet ELSE "none"
        resp == IF line.kind = "ok" THEN HandleRequest(req, tools, ret)
                ELSE [kind |-> "unmarshal error"]
    IN /\ exec \/ execRet = "ok"
       /\ lastDispatch' = [line |-> line, tools |-> tools, ret |-> ret,
                           resp |-> resp, initSeen |-> initSeen]
       /\ refCall' = IF refCall = NoDispatch THEN lastDispatch' ELSE refCall
       /\ initSeen' = (initSeen \/ (line.kind = "ok" /\ req.Method = MethodInitialize))
    /\ UNCHANGED <<running, tools, pc, cur, inputs, output, lastSent, lastExec,
                   startRet, lastReg, regTwice, rt>>
    /\ UNCHANGED loopHist
    /\ UNCHANGED <<cacheVars, toolVars, lockVars>>

\* The loop body for the line just read, up to the next loop condition or
\* to the call of tool.Execute.
Handle ==
    /\ pc = "handle"
    /\ LET src == Len(inputs)
           req == Request(cur)
           resp == IF cur.kind = "ok" THEN HandleRequest(req, tools, "none")
                   ELSE ParseErrorResponse(cur)
       IN CASE cur.kind = "empty" ->
                 /\ pc' = "scan"
                 /\ UNCHANGED <<output, lastSent, lastExec>>
            [] cur.kind \in {"garbage", "badshape"} ->
                 /\ output' = IF HasRawID(cur)
                              THEN sendResponse(output, resp, src)
                              ELSE output
                 /\ lastSent' = IF output' # output
                                THEN [resp |-> resp, src |-> src] ELSE lastSent
                 /\ pc' = "scan"
                 /\ UNCHANGED lastExec
            [] cur.kind = "ok" /\ CallsExecute(req, tools) ->
                 /\ lastExec' = [src |-> src, ret |-> "running"]
                 /\ pc' = "exec"
                 /\ UNCHANGED <<output, lastSent>>
            [] OTHER ->
                 /\ output' = Deliver(output, resp, req.ID = NilID, src)
                 /\ lastSent' = IF output' # output
                                THEN [resp |-> resp, src |-> src] ELSE lastSent
                 /\ pc' = "scan"
                 /\ UNCHANGED lastExec
    /\ dispatched' = (cur.kind = "ok")
    /\ UNCHANGED <<running, tools, cur, inputs, startRet, lastReg, regTwice,
                   readErr, readAfterStop>>
    /\ UNCHANGED routerFrame

\* tool.Execute returns; the rest of the loop body.
ToolReturn(execRet) ==
    /\ pc = "exec"
    /\ LET req == Request(cur)
           resp == HandleRequest(req, tools, execRet)
       IN /\ output' = Deliver(output, resp, req.ID = NilID, Len(inputs))
          /\ lastSent' = IF output' # output
                         THEN [resp |-> resp, src |-> Len(inputs)] ELSE lastSent
    /\ lastExec' = [lastExec EXCEPT !.ret = execRet]
    /\ pc' = "scan"
    /\ UNCHANGED <<running, tools, cur, inputs, startRet, lastReg, regTwice>>
    /\ UNCHANGED loopHist
    /\ UNCHANGED routerFrame

-----------------------------------------------------------------------------
(* MemoryCache *)

KeySet == {"k1", "k2"}

\* The keys the tools store their data under (cpu_info with the default
\* duration).
ToolNames == {"cpu_info", "memory_info"}
CacheKey(tool) == IF tool = "cpu_info" THEN "cpu_info_1s" ELSE "memory_info"
ToolKeys == {CacheKey(tool) : tool \in ToolNames}
AllKeys == KeySet \cup ToolKeys
Values == {"v1", "v2"}
TTLs == {1, 2}
NoValue == "nil"

\* time.Time.After
After(t, u) == t > u

NewMemoryCacheItems == << >>

\* delete(mc.items, key)
MapDelete(m, key) == [k \in DOMAIN m \ {key} |-> m[k]]

SetItemsKeepExpiry(m, key, value, duration, t) ==
    IF key \in DOMAIN m
    THEN [m EXCEPT ![key].Value = value]
    ELSE (key :> [Value |-> value, ExpiresAt |-> t + duration]) @@ m

\* The body of Set under the write lock.
SetItems(m, key, value, duration, t) ==
    (key :> [Value |-> value, ExpiresAt |-> t + duration]) @@ m

\* The body of Get under the read lock: the value and found flag returned,
\* and whether a deferred delete is spawned.
GetResultAtOrAfter(m, key, t) ==
    IF key \notin DOMAIN m
    THEN [value |-> NoValue, found |-> FALSE, spawn |-> FALSE]
    ELSE IF t >= m[key].ExpiresAt
         THEN [value |-> NoValue, found |-> FALSE, spawn |-> TRUE]
         ELSE [value |-> m[key].Value, found |-> TRUE, spawn |-> FALSE]

GetResultIgnoreExpiry(m, key, t) ==
    IF key \notin DOMAIN m
    THEN [value |-> NoValue, found |-> FALSE, spawn |-> FALSE]
    ELSE [value |-> m[key].Value, found |-> TRUE, spawn |-> FALSE]

GetResult(m, key, t) ==
    IF key \notin DOMAIN m
    THEN [value |-> NoValue, found |-> FALSE, spawn |-> FALSE]
    ELSE IF After(t, m[key].ExpiresAt)
         THEN [value |-> NoValue, found |-> FALSE, spawn |-> TRUE]
         ELSE [value |-> m[key].Value, found |-> TRUE, spawn |-> FALSE]

\* The body of GetWithTTL under the read lock.
GetWithTTLResult(m, key, t) ==
    IF key \notin DOMAIN m
    THEN [value |-> NoValue, ttl |-> 0, found |-> FALSE, spawn |-> FALSE]
    ELSE IF After(t, m[key].ExpiresAt)
         THEN [value |-> NoValue, ttl |-> 0, found |-> FALSE, spawn |-> TRUE]
         ELSE [value |-> m[key].Value, ttl |-> m[key].ExpiresAt - t,
               found |-> TRUE, spawn |-> FALSE]

\* The body of cleanupExpired under the write lock.
SweepNothing(m, t) == m

SweepItemsAtOrAfter(m, t) ==
    [k \in {x \in DOMAIN m : t < m[x].ExpiresAt} |-> m[k]]

SweepItems(m, t) ==
    [k \in {x \in DOMAIN m : ~After(t, m[x].ExpiresAt)} |-> m[k]]

IsExpired(m, key, t) == key \in DOMAIN m /\ After(t, m[key].ExpiresAt)

\* A caller's operation as recorded in lastCall.
Call(op, key, value, found, existed, exp, afterSet, setValue, setDeadline, dl) ==
    [op |-> op, key |-> key, at |-> now, value |-> value, found |-> found,
     existed |-> existed, exp |-> exp, afterSet |-> afterSet,
     setValue |-> setValue, setDeadline |-> setDeadline, deadline |-> dl]

PlainCall(op, key, value, dl) ==
    Call(op, key, value, FALSE, FALSE, -1, FALSE, NoValue, -1, dl)

CacheInit ==
    /\ items = NewMemoryCacheItems
    /\ now = 0
    /\ pending = [k \in AllKeys |-> 0]
    /\ deadline = [k \in AllKeys |-> -1]
    /\ lastCall = [PlainCall("none", "", NoValue, -1) EXCEPT !.at = 0]
    /\ swept = {}
    /\ spawned = {}

\* The deferred-delete goroutines spawned and not yet run, over all keys.
RECURSIVE SumOver(_, _)
SumOver(f, S) ==
    IF S = {} THEN 0
    ELSE LET k == CHOOSE x \in S : TRUE IN f[k] + SumOver(f, S \ {k})

Outstanding == SumOver(pending, AllKeys)

\* MemoryCache.Set: what a call does to the cache.
SetCall(key, value, duration) ==
    /\ items' = SetItems(items, key, value, duration, now)
    /\ deadline' = [deadline EXCEPT ![key] = now + duration]
    /\ lastCall' = PlainCall("set", key, value, now + duration)
    /\ swept' = {}
    /\ spawned' = spawned \ {key}
    /\ UNCHANGED <<now, pending>>

\* MemoryCache.Set
Set(key, value, duration) ==
    /\ SetCall(key, value, duration)
    /\ UNCHANGED cacheFrame

\* The history a read of key records: the entry it saw and, when the
\* caller's previous operation was a Set of the same key, what that Set stored.
ReadCall(op, key, r) ==
    LET existed == key \in DOMAIN items
        afterSet == lastCall.op = "set" /\ lastCall.key = key
    IN Call(op, key, r.value, r.found, existed,
            IF existed THEN items[key].ExpiresAt ELSE -1,
            afterSet,
            IF afterSet THEN lastCall.value ELSE NoValue,
            IF afterSet THEN lastCall.deadline ELSE -1,
            deadline[key])

\* MemoryCache.Get: what a call does to the cache.
GetCall(key) ==
    LET r == GetResult(items, key, now)
    IN /\ r.spawn => Outstanding < MaxPending
       /\ pending' = IF r.spawn THEN [pending EXCEPT ![key] = @ + 1] ELSE pending
       /\ spawned' = IF r.spawn THEN spawned \cup {key} ELSE spawned
       /\ lastCall' = ReadCall("get", key, r)
       /\ swept' = {}
       /\ UNCHANGED <<items, now, deadline>>

\* MemoryCache.Get
Get(key) ==
    /\ GetCall(key)
    /\ UNCHANGED cacheFrame

\* MemoryCache.GetWithTTL
GetWithTTL(key) ==
    LET r == GetWithTTLResult(items, key, now)
    IN /\ r.spawn => Outstanding < MaxPending
       /\ pending' = IF r.spawn THEN [pending EXCEPT ![key] = @ + 1] ELSE pending
       /\ spawned' = IF r.spawn THEN spawned \cup {key} ELSE spawned
       /\ lastCall' = ReadCall("getttl", key, r)
       /\ swept' = {}
       /\ UNCHANGED <<items, now, deadline>>
    /\ UNCHANGED cacheFrame

\* The goroutine spawned by Get / GetWithTTL on an expired entry.
DeferredDelete(key) ==
    /\ pending[key] > 0
    /\ pending' = [pending EXCEPT ![key] = @ - 1]
    /\ items' = MapDelete(items, key)
    /\ UNCHANGED <<now, deadline, lastCall, swept>>
    /\ spawned' = spawned \cap DOMAIN items'
    /\ UNCHANGED cacheFrame

\* MemoryCache.Delete
Delete(key) ==
    /\ items' = MapDelete(items, key)
    /\ lastCall' = PlainCall("delete", key, NoValue, -1)
    /\ swept' = {}
    /\ UNCHANGED <<now, pending, deadline>>
    /\ spawned' = spawned \cap DOMAIN items'
    /\ UNCHANGED cacheFrame

\* MemoryCache.Clear
Clear ==
    /\ items' = NewMemoryCacheItems
    /\ lastCall' = PlainCall("clear", "", NoValue, -1)
    /\ swept' = {}
    /\ UNCHANGED <<now, pending, deadline>>
    /\ spawned' = spawned \cap DOMAIN items'
    /\ UNCHANGED cacheFrame

\* MemoryCache.Size, which returns len(mc.items)
Size ==
    /\ lastCall' = PlainCall("size", "", NoValue, -1)
    /\ swept' = {}
    /\ UNCHANGED <<items, now, pending, deadline>>
    /\ UNCHANGED spawned
    /\ UNCHANGED cacheFrame

\* MemoryCache.Keys, which returns the keys of mc.items
Keys ==
    /\ lastCall' = PlainCall("keys", "", NoValue, -1)
    /\ swept' = {}
    /\ UNCHANGED <<items, now, pending, deadline>>
    /\ UNCHANGED spawned
    /\ UNCHANGED cacheFrame

\* One pass of the cleanup goroutine's ticker loop.
cleanupExpired ==
    /\ items' = SweepItems(items, now)
    /\ swept' = swept \cup (DOMAIN items \ DOMAIN items')
    /\ UNCHANGED <<now, pending, deadline, lastCall>>
    /\ spawned' = spawned \cap DOMAIN items'
    /\ UNCHANGED cacheFrame

\* The clock advances.
Tick ==
    /\ now < MaxTime
    /\ now' = now + 1
    /\ UNCHANGED <<items, pending, deadline, lastCall, swept>>
    /\ UNCHANGED spawned
    /\ UNCHANGED cacheFrame

CacheNext ==
    \/ \E k \in KeySet, v \in Values, d \in TTLs : Set(k, v, d)
    \/ \E k \in KeySet : Get(k)
    \/ \E k \in KeySet : GetWithTTL(k)
    \/ \E k \in KeySet : DeferredDelete(k)
    \/ \E k \in KeySet : Delete(k)
    \/ Clear
    \/ Size
    \/ Keys
    \/ cleanupExpired
    \/ Tick

-----------------------------------------------------------------------------
(* Tools: CPUTool.Execute and MemoryTool.Execute over the cache *)

\* The readings the operating system can give.
Samples == {"s1", "s2"}

\* What args["use_cache"].(string) yields: the member when it is a string,
\* "" when it is absent or not a string.
UseCacheStrings == {"", "true", "false", "TRUE"}

UseCacheUnlessFalse(useCacheStr) == useCacheStr # "false"

UseCacheNever(useCacheStr) == FALSE

UseCache(useCacheStr) == useCacheStr = "true"

\* The duration a tool caches its result for, in ticks of 15 seconds.
ToolTTL(tool) == IF tool = "cpu_info" THEN 2 ELSE 1

NoToolCall == [tool |-> "", useCache |-> "", key |-> ""]
NoToolRet == [ok |-> FALSE, data |-> NoValue, cached |-> FALSE,
              fresh |-> NoValue, replaced |-> NoValue]

NotComputed == [data |-> NoValue, at |-> -1]

\* The value of the entry stored under key and not past its expiry, if any.
LiveValue(m, key, t) ==
    IF key \in DOMAIN m /\ ~After(t, m[key].ExpiresAt) THEN m[key].Value ELSE NoValue

ToolInit ==
    /\ sys = "s1"
    /\ tpc = "idle"
    /\ tcall = NoToolCall
    /\ tret = NoToolRet
    /\ computed = [k \in ToolKeys |-> NotComputed]

\* Execute up to the computation: the arguments are parsed and, with
\* use_cache "true", the cache is read; a hit is formatted and returned.
Execute(tool, useCacheStr) ==
    LET key == CacheKey(tool)
        r == GetResult(items, key, now)
    IN /\ tpc = "idle"
       /\ tcall' = [tool |-> tool, useCache |-> useCacheStr, key |-> key]
       /\ IF UseCache(useCacheStr)
          THEN /\ GetCall(key)
               /\ IF r.found
                  THEN /\ tret' = [ok |-> TRUE, data |-> r.value, cached |-> TRUE,
                                   fresh |-> sys, replaced |-> NoValue]
                       /\ tpc' = "idle"
                  ELSE /\ tret' = NoToolRet
                       /\ tpc' = "compute"
          ELSE /\ tret' = NoToolRet
               /\ tpc' = "compute"
               /\ UNCHANGED cacheVars
    /\ UNCHANGED <<sys, computed>>
    /\ UNCHANGED toolFrame

ComputeStoreAlways(failed) ==
    /\ tpc = "compute"
    /\ tpc' = "idle"
    /\ SetCall(tcall.key, IF failed THEN NoValue ELSE sys, ToolTTL(tcall.tool))
    /\ IF failed
       THEN /\ tret' = [NoToolRet EXCEPT !.fresh = sys]
            /\ UNCHANGED computed
       ELSE /\ computed' = [computed EXCEPT ![tcall.key] = [data |-> sys, at |-> now]]
            /\ tret' = [ok |-> TRUE, data |-> sys, cached |-> FALSE, fresh |-> sys,
                        replaced |-> LiveValue(items, tcall.key, now)]
    /\ UNCHANGED <<sys, tcall>>
    /\ UNCHANGED toolFrame

\* The rest of Execute: the system is sampled; a failure is returned as an
\* error, a reading is stored in the cache and returned.
Compute(failed) ==
    /\ tpc = "compute"
    /\ tpc' = "idle"
    /\ IF failed
       THEN /\ tret' = [NoToolRet EXCEPT !.fresh = sys]
            /\ UNCHANGED cacheVars
            /\ UNCHANGED computed
       ELSE /\ SetCall(tcall.key, sys, ToolTTL(tcall.tool))
            /\ computed' = [computed EXCEPT ![tcall.key] = [data |-> sys, at |-> now]]
            /\ tret' = [ok |-> TRUE, data |-> sys, cached |-> FALSE, fresh |-> sys,
                        replaced |-> LiveValue(items, tcall.key, now)]
    /\ UNCHANGED <<sys, tcall>>
    /\ UNCHANGED toolFrame

\* The state of the system changes.
Measure ==
    /\ sys' \in Samples \ {sys}
    /\ UNCHANGED <<tpc, tcall, tret, computed>>
    /\ UNCHANGED cacheVars
    /\ UNCHANGED toolFrame

ToolNext ==
    \/ \E tool \in ToolNames, u \in UseCacheStrings : Execute(tool, u)
    \/ \E failed \in BOOLEAN : Compute(failed)
    \/ Measure
    \/ \E k \in ToolKeys : DeferredDelete(k)
    \/ cleanupExpired
    \/ Tick

-----------------------------------------------------------------------------
(* MemoryCache under its mutex, one step to take the lock and one to run the
   body and release it *)

\* The goroutines that use the cache: two callers and one background
\* goroutine (the cleanup loop or a deferred delete).
Callers == {"c1", "c2"}
Background == "bg"
Goroutines == Callers \cup {Background}

CallerOps == {[op |-> o, key |-> k] : o \in {"set", "get", "getttl", "delete"},
                                     k \in KeySet}
             \cup {[op |-> o, key |-> ""] : o \in {"clear", "size", "keys"}}
BackgroundOps == {[op |-> "lazy", key |-> k] : k \in KeySet}
                 \cup {[op |-> "sweep", key |-> ""]}
Outside == [op |-> "none", key |-> ""]

\* How each operation takes mc.mutex: Lock() or RLock().
LockModeShared(op) == "RLock"

LockMode(op) == IF op \in {"get", "getttl", "size", "keys"} THEN "RLock" ELSE "Lock"

\* The operations whose body writes mc.items.
Mutating(op) == op \in {"set", "delete", "clear", "lazy", "sweep"}

\* sync.RWMutex: Lock() waits until nobody holds the mutex, RLock() until no
\* writer holds it.
Unlocked == [writer |-> FALSE, readers |-> 0]
CanTake(m, mode) == IF mode = "Lock" THEN ~m.writer /\ m.readers = 0 ELSE ~m.writer
Take(m, mode) == IF mode = "Lock" THEN [m EXCEPT !.writer = TRUE]
                 ELSE [m EXCEPT !.readers = @ + 1]
Release(m, mode) == IF mode = "Lock" THEN [m EXCEPT !.writer = FALSE]
                    ELSE [m EXCEPT !.readers = @ - 1]

LockInit ==
    /\ mutex = Unlocked
    /\ cs = [g \in Goroutines |-> Outside]

\* The goroutines inside Get or GetWithTTL, each of which may spawn a
\* deferred delete.
Readers == {g \in Goroutines : cs[g].op \in {"get", "getttl"}}

\* A goroutine calls an operation and gets the mutex.  A deferred delete
\* exists once a read has spawned it; a read starts only while the deferred
\* deletes it and the reads under way can spawn stay within MaxPending.
Acquire(g, call) ==
    /\ cs[g] = Outside
    /\ call.op = "lazy" => pending[call.key] > 0
    /\ call.op \in {"get", "getttl"} =>
          Outstanding + Cardinality(Readers) < MaxPending
    /\ CanTake(mutex, LockMode(call.op))
    /\ mutex' = Take(mutex, LockMode(call.op))
    /\ cs' = [cs EXCEPT ![g] = call]
    /\ UNCHANGED cacheVars
    /\ UNCHANGED toolVars
    /\ UNCHANGED routerVars

\* What the body of an operation does to mc.items.
BodyItems(call, value, duration) ==
    CASE call.op = "set" -> SetItems(items, call.key, value, duration, now)
      [] call.op \in {"delete", "lazy"} -> MapDelete(items, call.key)
      [] call.op = "clear" -> NewMemoryCacheItems
      [] call.op = "sweep" -> SweepItems(items, now)
      [] OTHER -> items

\* The deferred deletes outstanding once the body has run: a read of an
\* expired entry spawns one, a deferred delete that has run is gone.
BodyPending(call) ==
    CASE call.op = "get" /\ GetResult(items, call.key, now).spawn ->
             [pending EXCEPT ![call.key] = @ + 1]
      [] call.op = "getttl" /\ GetWithTTLResult(items, call.key, now).spawn ->
             [pending EXCEPT ![call.key] = @ + 1]
      [] call.op = "lazy" -> [pending EXCEPT ![call.key] = @ - 1]
      [] OTHER -> pending

\* The goroutine runs the body of its operation and releases the mutex (the
\* deferred Unlock / RUnlock).  No caller history is kept here.
Finish(g, value, duration) ==
    /\ cs[g] # Outside
    /\ items' = BodyItems(cs[g], value, duration)
    /\ pending' = BodyPending(cs[g])
    /\ mutex' = Release(mutex, LockMode(cs[g].op))
    /\ cs' = [cs EXCEPT ![g] = Outside]
    /\ UNCHANGED <<now, deadline, lastCall, swept, spawned>>
    /\ UNCHANGED toolVars
    /\ UNCHANGED routerVars

LockNext ==
    \/ \E g \in Callers, call \in CallerOps : Acquire(g, call)
    \/ \E call \in BackgroundOps : Acquire(Background, call)
    \/ \E g \in Goroutines, v \in Values, d \in TTLs : Finish(g, v, d)
    \/ Tick

-----------------------------------------------------------------------------
(* Specifications *)

Init == RouterInit /\ CacheInit /\ ToolInit /\ LockInit

\* The server as main runs it: Start on a fresh router, the message loop, and
\* Start and Stop called from other goroutines.
Next ==
    \/ Start
    \/ StartWhileRunning
    \/ Stop
    \/ LoopCheck
    \/ \E line \in Lines : ScanLine(line)
    \/ ScanEnd
    \/ Handle
    \/ \E execRet \in {"ok", "err"} : ToolReturn(execRet)

Spec == Init /\ [][Next]_vars

\* The router set up through GetHandler().RegisterTool before Start, and its
\* message loop left to run to the end of the input.
SetupNext ==
    \/ \E tool \in CustomTools : RegisterToolCall(tool)
    \/ Start
    \/ LoopCheck
    \/ \E line \in Lines : ScanLine(line)
    \/ ScanEnd
    \/ Handle
    \/ \E execRet \in {"ok", "err"} : ToolReturn(execRet)

SetupSpec == Init /\ [][SetupNext]_vars

\* Responses marshalled and parsed back, for every line the router answers,
\* on a handler with or without tools registered by its caller.
TripNext ==
    \/ \E tool \in CustomTools : RegisterToolCall(tool)
    \/ \E line \in TripLines, execRet \in {"ok", "err"} : RoundTrip(line, execRet)

TripSpec == Init /\ [][TripNext]_vars

\* The two tools called one call at a time, as the message loop calls them,
\* beside the clock, the cache's goroutines and the system under measure.
ToolSpec == Init /\ [][ToolNext]_vars

\* The cache used by several goroutines at once, each operation split at
\* its lock.
LockSpec == Init /\ [][LockNext]_vars

CacheSpec == Init /\ [][CacheNext]_vars

\* The dispatcher called request by request through ProcessSingleRequest, on
\* a handler with or without a tool registered by its caller.
DispatchNext ==
    \/ \E tool \in CustomTools : RegisterToolCall(tool)
    \/ \E line \in DispatchLines, execRet \in {"ok", "err"} :
          ProcessSingleRequest(line, execRet)

DispatchSpec == Init /\ [][DispatchNext]_vars

\* The ticker of the cleanup goroutine keeps firing and every spawned
\* goroutine is eventually scheduled.
CacheFairSpec ==
    /\ CacheSpec
    /\ WF_vars(cleanupExpired)
    /\ \A k \in KeySet : WF_vars(DeferredDelete(k))

\* The cache with the cleanup goroutine's ticker alone taken to keep firing.
SweepFairSpec == CacheSpec /\ WF_vars(cleanupExpired)

-----------------------------------------------------------------------------
(* Properties of the router *)

\* The loop has finished its body for the line in cur.
Handled == pc \in {"scan", "read", "done"} /\ cur.kind # "none"

IsNotificationLine(line) == DecodeID(line.id) = NilID

\* The number of output lines written for input line s.
AnswerCount(s) == Cardinality({i \in 1..Len(output) : output[i].src = s})

AnsweredLast == lastSent.src = Len(inputs)

\* C1: a line whose id member is absent or null never causes an output
\* line, whatever else it holds.
C1_NoOutputForNullOrAbsentId ==
    \A i \in 1..Len(output) : inputs[output[i].src].t \notin {"absent", "null"}

\* C2: the ids on the output lines are, in order, the ids of a subsequence
\* of the lines read: each output line answers a line read, carries that
\* line's id, and answers a later line than the output line before it.
C2_ResponsesInReadOrder ==
    /\ \A i \in 1..Len(output) :
          /\ output[i].src \in 1..Len(inputs)
          /\ output[i].id = DecodeID(inputs[output[i].src])
    /\ \A i, j \in 1..Len(output) : i < j => output[i].src < output[j].src

C2_Witness ==
    /\ Len(output) = 2
    /\ output[1].id # output[2].id
    /\ output[1].src = 1
    /\ output[2].src = 2

\* The line in cur is a request with a non-null id whose dispatch yields a
\* response.
Answerable ==
    /\ cur.kind = "ok"
    /\ ~IsNotificationLine(cur)
    /\ HandleRequest(Request(cur), tools, "ok") # Nil

C3_AnsweredOnce ==
    /\ \A s \in 1..Len(inputs) : AnswerCount(s) <= 1
    /\ Handled /\ Answerable =>
          /\ AnswerCount(Len(inputs)) = 1
          /\ AnsweredLast
          /\ output[Len(output)].src = Len(inputs)
          /\ output[Len(output)].id = DecodeID(cur.id)

\* C3: a request with a non-null id whose dispatch yields a response gets
\* exactly one output line, with its id, before the next line is read; no
\* line is answered twice, and a line is read only when the loop is at its
\* condition, the line before it finished.
C3_OneAnswerBeforeNextRead ==
    /\ []C3_AnsweredOnce
    /\ [][inputs' # inputs => pc = "read" /\ pc' = "handle"]_vars

C3_Witness ==
    /\ Handled
    /\ Answerable
    /\ Len(inputs) = 2
    /\ AnswerCount(1) = 1
    /\ AnswerCount(2) = 1

UnknownToolCall ==
    /\ cur.kind = "ok"
    /\ cur.method = MethodCallTool
    /\ ~IsNotificationLine(cur)
    /\ cur.params.shape # "bad"
    /\ cur.params.name \notin DOMAIN tools

\* C4: tools/call with a non-null id and a name that is not registered is
\* answered by an error envelope with code -32602 and the request's id, and
\* Execute is not invoked.
C4_UnknownToolIsInvalidParams ==
    Handled /\ UnknownToolCall =>
        /\ AnsweredLast
        /\ lastSent.resp.ID = DecodeID(cur.id)
        /\ lastSent.resp.Result = Nil
        /\ lastSent.resp.Error # Nil
        /\ lastSent.resp.Error.code = -32602
        /\ lastExec = NoExec

C4_Witness ==
    /\ Handled
    /\ UnknownToolCall
    /\ cur.params.name = UnregisteredName
    /\ cur.id.t = "str"
    /\ AnsweredLast

IsErrorContent(r) ==
    /\ r # Nil
    /\ r.Error = Nil
    /\ r.Result # Nil
    /\ r.Result.kind = "content"
    /\ r.Result.isError

C5_FailureIsContent ==
    /\ cur.kind = "ok" /\ CallsExecute(Request(cur), tools) =>
          IsErrorContent(HandleRequest(Request(cur), tools, "err"))
    /\ Handled /\ lastExec.ret = "err" /\ ~IsNotificationLine(cur) =>
          /\ AnsweredLast
          /\ IsErrorContent(lastSent.resp)
          /\ lastSent.resp.ID = DecodeID(cur.id)

\* C5: when Execute of a registered tool fails, the response is a result
\* envelope without an error member whose content is flagged is_error, and
\* the loop goes on to its next condition with the running flag untouched.
C5_ToolFailureIsFlaggedResult ==
    /\ []C5_FailureIsContent
    /\ [][pc = "exec" /\ pc' # "exec" => pc' = "scan" /\ running' = running]_vars

C5_Witness ==
    /\ Handled
    /\ lastExec.ret = "err"
    /\ ~IsNotificationLine(cur)
    /\ AnsweredLast
    /\ pc = "scan"
    /\ running

ExactlyOne(r) == (r.Result # Nil) # (r.Error # Nil)

\* C6: every response envelope, written or built, from the dispatcher for
\* the request in hand under either tool outcome or from the parse-error
\* path, has exactly one of result and error.
C6_ResultXorError ==
    /\ \A i \in 1..Len(output) : output[i].hasResult # output[i].hasError
    /\ cur.kind = "ok" =>
          \A execRet \in {"ok", "err"} :
             LET r == HandleRequest(Request(cur), tools, execRet)
             IN r # Nil => ExactlyOne(r)
    /\ cur.kind = "badshape" => ExactlyOne(ParseErrorResponse(cur))

C6_Witness ==
    /\ Len(output) = 2
    /\ output[1].hasError
    /\ output[2].hasResult
    /\ "custom" \in DOMAIN tools

ListRequest == [ID |-> NilID, Method |-> MethodListTools, Params |-> NoParams]

\* C10: the tools/list result holds exactly one descriptor per name ever
\* registered, that of the name's latest registration.
C10_OneDescriptorPerName ==
    LET listed == handleListTools(ListRequest, tools).Result.tools
    IN /\ BagCardinality(listed) = Cardinality(DOMAIN lastReg)
       /\ \A n \in DOMAIN lastReg :
             CopiesIn([name |-> n, description |-> lastReg[n].description],
                      listed) = 1
       /\ Handled /\ cur.kind = "ok" /\ cur.method = MethodListTools
            /\ ~IsNotificationLine(cur) =>
             /\ AnsweredLast
             /\ lastSent.resp.Result = [kind |-> "tools", tools |-> listed]

C10_Witness ==
    /\ Handled
    /\ cur.kind = "ok"
    /\ cur.method = MethodListTools
    /\ AnsweredLast
    /\ "custom" \in regTwice
    /\ "cpu_info" \in DOMAIN tools

-----------------------------------------------------------------------------
(* Properties of the cache *)

\* C7: a Get that is the caller's next operation after Set(k, v, ttl), made
\* before the ttl has elapsed, returns (v, true).
C7_SetThenGetReturnsValue ==
    lastCall.op = "get" /\ lastCall.afterSet /\ lastCall.at <= lastCall.setDeadline =>
        lastCall.found /\ lastCall.value = lastCall.setValue

\* C8: Get reports found = false exactly when the key is absent or the clock
\* is past the entry's expiry (an entry expiring now is still found), and
\* once more than ttl has passed since the latest Set of the key it reports
\* found = false.
C8_FoundIffPresentAndNotPastExpiry ==
    lastCall.op = "get" =>
        /\ lastCall.found <=> (lastCall.existed /\ ~(lastCall.at > lastCall.exp))
        /\ lastCall.deadline # -1 /\ lastCall.at > lastCall.deadline => ~lastCall.found

C8_Witness ==
    /\ lastCall.op = "get"
    /\ lastCall.existed
    /\ lastCall.at = lastCall.exp
    /\ lastCall.found
    /\ lastCall.at > 0

\* C9: an entry that has expired is eventually gone from the map, or has
\* been set again.
C9_ExpiredEventuallyRemoved ==
    \A k \in KeySet : IsExpired(items, k, now) ~> ~IsExpired(items, k, now)

\* An entry that was set and never read has been removed by the sweep.
C9_Witness ==
    /\ lastCall.op = "set"
    /\ lastCall.key \in swept
    /\ lastCall.key \notin DOMAIN items
    /\ now > lastCall.deadline

-----------------------------------------------------------------------------
(* Claims on the loop's failure paths and its states *)

\* The line in cur failed to parse as the request envelope.
ParseFailed == cur.kind \in {"garbage", "badshape"}

\* An id member can be recovered from the line in cur: the line is a JSON
\* object holding an id member, whatever its value.
IdRecoverable == cur.kind = "badshape" /\ cur.id.t # "absent"

C11_ParseFailureAnswer ==
    Handled /\ ParseFailed =>
        /\ ~dispatched
        /\ lastExec = NoExec
        /\ IF IdRecoverable
           THEN /\ AnswerCount(Len(inputs)) = 1
                /\ AnsweredLast
                /\ lastSent.resp.Result = Nil
                /\ lastSent.resp.Error.code = -32700
                /\ lastSent.resp.ID = DecodeID(cur.id)
                /\ output[Len(output)].src = Len(inputs)
                /\ output[Len(output)].id = DecodeID(cur.id)
                /\ output[Len(output)].hasError
           ELSE /\ AnswerCount(Len(inputs)) = 0
                /\ lastSent = NoSent

UnsupportedRequest ==
    /\ cur.kind = "ok"
    /\ ~IsNotificationLine(cur)
    /\ cur.method \in {MethodReadResource, MethodOther}

C12_MethodNotFoundAnswer ==
    Handled /\ UnsupportedRequest =>
        /\ AnswerCount(Len(inputs)) = 1
        /\ AnsweredLast
        /\ lastSent.resp.Result = Nil
        /\ lastSent.resp.Error.code = -32601
        /\ lastSent.resp.ID = DecodeID(cur.id)
        /\ output[Len(output)] = Written(lastSent.resp, Len(inputs))

\* C12: a request with a non-null id for resources/read or for an unknown
\* method is answered by one error line with code -32601 and its id; the
\* step that writes a -32601 or -32602 line takes the loop back to its
\* condition and leaves the running flag alone, and a line read after such
\* a line was written is handled like any other.
C12_ProtocolErrorIsLocal ==
    /\ []C12_MethodNotFoundAnswer
    /\ [][output' # output /\ output'[Len(output')].code \in {-32601, -32602} =>
            pc' = "scan" /\ running' = running]_vars
    /\ [](\A i \in 1..Len(output) :
            output[i].code \in {-32601, -32602} /\ output[i].src < Len(inputs)
                /\ Handled /\ Answerable => AnsweredLast)

C12_Witness ==
    /\ Handled
    /\ Len(inputs) = 2
    /\ Len(output) = 2
    /\ output[1].src = 1
    /\ output[1].code = -32601
    /\ output[2].src = 2
    /\ output[2].hasResult
    /\ running

\* C13: when the read of the input fails, the loop ends and Start returns
\* the scanner's error; from then on no line is read, dispatched or
\* answered, and the loop is entered again only by a new call of Start.
C13_ReadErrorEndsLoop ==
    /\ [](readErr => pc = "done")
    /\ [][pc = "read" /\ readErr' => pc' = "done" /\ startRet' = "scan error"]_vars
    /\ [][readErr => /\ inputs' = inputs
                     /\ output' = output
                     /\ cur' = cur
                     /\ dispatched' = dispatched
                     /\ lastExec' = lastExec
                     /\ (pc' # "done" => ~running /\ running' /\ ~readErr')]_vars

C13_Witness ==
    /\ readErr
    /\ pc = "done"
    /\ startRet = "scan error"
    /\ Len(inputs) = 1
    /\ Len(output) = 1

\* C14: once the input is exhausted and Start has returned nil, IsRunning
\* reports false.
C14_StoppedAfterInputExhausted ==
    pc = "done" /\ startRet = "nil" => ~IsRunning

\* C15: a line read after Stop was called is neither dispatched nor
\* answered.
C15_NoDispatchAfterStop ==
    readAfterStop => ~dispatched /\ AnswerCount(Len(inputs)) = 0

\* The line in cur is the initialized notification, under either name.
InitializedMessage ==
    /\ cur.kind = "ok"
    /\ cur.method \in {MethodNotificationInitialized, MethodInitialized}

C16_InitializedUnanswered ==
    Handled /\ InitializedMessage =>
        /\ AnswerCount(Len(inputs)) = 0
        /\ lastSent = NoSent
        /\ lastExec = NoExec

\* C16: the initialized notification, under either name and with or without
\* an id, is answered by no output line, and handling it leaves the tool
\* registry and the output as they were.
C16_InitializedIsNoOp ==
    /\ []C16_InitializedUnanswered
    /\ [][pc = "handle" /\ pc' # "handle" /\ InitializedMessage =>
            pc' = "scan" /\ tools' = tools /\ output' = output]_vars

C16_Witness ==
    /\ Handled
    /\ InitializedMessage
    /\ cur.method = MethodNotificationInitialized
    /\ cur.id.t = "num"
    /\ dispatched
    /\ Len(inputs) = 2
    /\ Len(output) = 1
    /\ output[1].src = 1

-----------------------------------------------------------------------------
(* Claims on the deferred deletes and the locking of the cache *)

\* C17: an expired entry gives rise to one deferred delete: a read spawns
\* the goroutine for the entry under a key only if no earlier read of that
\* entry has spawned one.
C17_OneLazyRemovalPerEntry ==
    [][\A k \in KeySet : k \in spawned => pending'[k] <= pending[k]]_vars

\* C18: the id of a response, marshalled and parsed back, is the id of the
\* request it answers, with the same type and the same value, for every
\* numeric and every string id.
C18_IdRoundTrip ==
    rt # NoTrip /\ rt.sent.t \in {"num", "bignum", "str"} => rt.back = rt.sent

\* The Execute call in tcall was made with use_cache other than "true" and
\* has returned data.
UncachedReturn ==
    /\ tpc = "idle"
    /\ tcall # NoToolCall
    /\ tcall.useCache # "true"
    /\ tret.ok

\* C19: a tool executed with use_cache other than "true" (absent included)
\* returns the reading it has just taken, never the cached one; it makes no
\* read of the cache, and the reading replaces the entry under its key.
C19_UncachedCallIsFresh ==
    /\ [](UncachedReturn => ~tret.cached /\ tret.data = tret.fresh)
    /\ [][tpc = "idle" /\ tcall' # tcall /\ tcall'.useCache # "true" =>
            tpc' = "compute" /\ UNCHANGED cacheVars]_vars
    /\ [][tpc = "compute" /\ tpc' = "idle" /\ tret'.ok /\ tcall.useCache # "true" =>
            items'[tcall.key] = [Value |-> tret'.data,
                                 ExpiresAt |-> now + ToolTTL(tcall.tool)]]_vars

C19_Witness ==
    /\ UncachedReturn
    /\ tcall.useCache = ""
    /\ tret.replaced \notin {NoValue, tret.data}
    /\ items[tcall.key].Value = tret.data

\* The goroutines inside a critical section.
Inside == {g \in Goroutines : cs[g] # Outside}

MutualExclusion ==
    \A g \in Inside : Mutating(cs[g].op) => Inside = {g}

\* C20: a goroutine inside the critical section of a mutating operation is
\* alone inside; readers are inside only with readers; and while a reader is
\* inside, no entry of the map changes, so what it reads of an entry comes
\* from one Set.
C20_CacheMutualExclusion ==
    /\ []MutualExclusion
    /\ [](mutex.writer => Cardinality(Inside) = 1 /\ mutex.readers = 0)
    /\ [](mutex.readers = Cardinality({g \in Inside : ~Mutating(cs[g].op)}))
    /\ [][(\E g \in Inside : ~Mutating(cs[g].op)) => items' = items]_vars

C20_Witness ==
    /\ cs["c1"].op = "get"
    /\ cs["c2"].op = "keys"
    /\ mutex.readers = 2
    /\ cs[Background] = Outside
    /\ \E k \in KeySet : pending[k] > 0 /\ IsExpired(items, k, now)

-----------------------------------------------------------------------------
(* Properties of registration and of the dispatcher *)

\* A step in which RegisterTool is called on the handler: Start, through
\* InitializeTools, or a caller through GetHandler().
RegisterStep == Start \/ \E tool \in CustomTools : RegisterToolCall(tool)

\* C21: tool registration happens once, during startup, and is complete
\* before the loop reads its first line: no register call is made once a
\* line has been read, whatever Start and Stop calls are made.
C21_NoRegistrationAfterFirstRead ==
    [][RegisterStep => Len(inputs) = 0]_vars

\* Two calls were given the same request on the same registry with the same
\* tool outcome.
SameDispatch(a, b) ==
    /\ a.line # NoLine
    /\ a.line = b.line
    /\ a.tools = b.tools
    /\ a.ret = b.ret

MalformedCall(d) ==
    /\ d.line.kind = "ok"
    /\ d.line.method = MethodCallTool
    /\ d.line.params.shape \in {"absent", "bad"}

-----------------------------------------------------------------------------
(* Properties of the tools over the cache *)

\* A step in which Execute is called, and one in which its computation ends.
ExecuteStep == \E tool \in ToolNames, u \in UseCacheStrings : Execute(tool, u)
ComputeStep == \E failed \in BOOLEAN : Compute(failed)

\* The step writes an entry: a key gets an entry it did not have.
WritesEntry ==
    \E k \in DOMAIN items' : k \notin DOMAIN items \/ items'[k] # items[k]

\* Execute returns at once with the entry stored under the call's key.
ServedFromCache ==
    /\ tpc' = "idle"
    /\ tret'.ok
    /\ tret'.cached
    /\ tret'.data = LiveValue(items, tcall'.key, now)
    /\ items' = items

\* C24 as stated: every call of Execute whose key has a non-expired entry
\* returns the cached data without recomputing.
C24_EveryCallServedFromCache ==
    [][ExecuteStep /\ LiveValue(items, tcall'.key, now) # NoValue =>
          ServedFromCache]_vars

\* C24, amended: a call with use_cache "true" whose key has a non-expired
\* entry returns the cached data without recomputing; Execute writes no
\* entry before it has computed, and the cache is written only by the step
\* that ends a successful computation.
C24_CachedCallServedFromCache ==
    /\ [][ExecuteStep /\ tcall'.useCache = "true"
            /\ LiveValue(items, tcall'.key, now) # NoValue =>
              ServedFromCache]_vars
    /\ [][ExecuteStep => items' = items]_vars
    /\ [][WritesEntry => ComputeStep /\ tret'.ok /\ ~tret'.cached]_vars

C24_Witness ==
    /\ tpc = "idle"
    /\ tcall.useCache = "true"
    /\ tret.ok
    /\ tret.cached
    /\ tret.data # tret.fresh
    /\ items[tcall.key].Value = tret.data

\* Execute returns data taken from the cache.
CacheHit == ExecuteStep /\ tret'.ok /\ tret'.cached

\* C25: data a tool returns from the cache was computed at most the tool's
\* TTL ago, and a cache hit sets nothing: the entry and its expiry stay as
\* they were, whatever calls were made before and with whatever use_cache.
C25_CachedDataWithinTTL ==
    [][CacheHit =>
          /\ tret'.data = computed[tcall'.key].data
          /\ computed[tcall'.key].at >= 0
          /\ now - computed[tcall'.key].at <= ToolTTL(tcall'.tool)
          /\ UNCHANGED <<items, deadline>>]_vars

C25_Witness ==
    /\ tpc = "idle"
    /\ tret.ok
    /\ tret.cached
    /\ tcall.tool = "cpu_info"
    /\ now - computed[tcall.key].at = ToolTTL("cpu_info")
    /\ lastCall.op = "get"
    /\ lastCall.at = now
    /\ computed["memory_info"].at >= 0

\* C26: a tool stores an entry only after its computation succeeded; when
\* the data collection fails, Execute returns the failure and the cache is
\* as it was: no entry added, replaced or removed.
C26_FailureLeavesCache ==
    /\ [][ComputeStep /\ ~tret'.ok =>
            /\ items' = items
            /\ tret'.data = NoValue
            /\ UNCHANGED <<deadline, computed>>]_vars
    /\ [][(\E k \in DOMAIN items' : k \notin DOMAIN items) =>
            ComputeStep /\ tret'.ok /\ items'[tcall.key].Value = tret'.data]_vars

C26_Witness ==
    /\ tpc = "idle"
    /\ tcall.tool = "memory_info"
    /\ ~tret.ok
    /\ tret.fresh # NoValue
    /\ tcall.key \in DOMAIN items
    /\ items[tcall.key].Value # tret.fresh
    /\ "cpu_info_1s" \notin DOMAIN items
    /\ computed["cpu_info_1s"] = NotComputed

-----------------------------------------------------------------------------
(* Properties of the cache's entries *)

\* C27: set(k, v, ttl) never fails and replaces the whole entry for k:
\* afterwards k has the one entry (v, now + ttl), whatever value and expiry
\* it had before, and the entries under every other key are as they were.
C27_SetReplacesWholeEntry ==
    /\ [](\A k \in KeySet, v \in Values, d \in TTLs : ENABLED Set(k, v, d))
    /\ [][\A k \in KeySet, v \in Values, d \in TTLs :
            Set(k, v, d) =>
              /\ DOMAIN items' = DOMAIN items \cup {k}
              /\ items'[k] = [Value |-> v, ExpiresAt |-> now + d]
              /\ \A o \in DOMAIN items \ {k} : items'[o] = items[o]]_vars

C27_Witness ==
    /\ lastCall.op = "set"
    /\ lastCall.key = "k1"
    /\ lastCall.at = now
    /\ now >= 2
    /\ items["k1"] = [Value |-> "v2", ExpiresAt |-> now + 1]
    /\ pending["k1"] > 0
    /\ "k2" \in DOMAIN items
    /\ IsExpired(items, "k2", now)

\* C28: a background sweep removes exactly the entries with now >
\* expires_at at the time of the sweep and leaves every other entry, key,
\* value and expiry, as it was; the sweep is driven by its ticker alone and
\* can run in any state, whether or not a read has happened.
C28_SweepRemovesExactlyExpired ==
    /\ [](ENABLED cleanupExpired)
    /\ [][cleanupExpired =>
            /\ DOMAIN items' = {k \in DOMAIN items : ~(now > items[k].ExpiresAt)}
            /\ DOMAIN items \ DOMAIN items' =
                  {k \in DOMAIN items : now > items[k].ExpiresAt}
            /\ \A k \in DOMAIN items' : items'[k] = items[k]
            /\ UNCHANGED <<lastCall, pending>>]_vars

C28_Witness ==
    /\ swept = {"k1"}
    /\ lastCall.op = "set"
    /\ "k2" \in DOMAIN items
    /\ items["k2"].ExpiresAt = now
    /\ pending = [k \in AllKeys |-> 0]

\* C29: no operation of the cache removes an entry that is not expired,
\* except a caller's delete or clear; a delete deferred by a read of an
\* expired entry does not remove the fresh entry a set stored in between.
C29_OnlyCallersRemoveFreshEntries ==
    [][(\E k \in DOMAIN items \ DOMAIN items' : ~IsExpired(items, k, now)) =>
          Clear \/ \E k \in KeySet : Delete(k)]_vars

-----------------------------------------------------------------------------
(* Properties of Start and Stop *)

\* A call of Router.Start.
StartCall == Start \/ StartWhileRunning

\* C30: Start on a router that is already running returns an error and
\* changes nothing: the flag stays true, no tool is registered again and no
\* second message loop is started; the flag is cleared by Stop alone, so
\* Start gets past its test again only after a Stop.
C30_StartWhileRunningIsRefused ==
    /\ [][StartCall /\ running =>
            /\ startRet' = "already running"
            /\ running'
            /\ UNCHANGED <<tools, lastReg, regTwice>>
            /\ UNCHANGED <<pc, cur, inputs, output>>]_vars
    /\ [][Start => ~running]_vars
    /\ [][running /\ ~running' => Stop]_vars

C30_Witness ==
    /\ startRet = "already running"
    /\ running
    /\ pc = "done"
    /\ Len(inputs) > 0
    /\ regTwice = BuiltinNames


====
